---- MODULE Spec2Model ----
(***************************************************************************)
(* The sequential multi-model pipeline runner (enhance_audio) of           *)
(* clearvoice, in its two copies (src/clearvoice/main.py and               *)
(* src/handler.py), and the two serverless request handlers that call it.  *)
(*                                                                         *)
(* The file system is a function from paths to files; a file carries its   *)
(* bytes (data) and, as history, the run that wrote it (by).  The external *)
(* ClearVoice model, ffmpeg, requests and base64 are collaborators: each   *)
(* "completes or raises", chosen nondeterministically.                     *)
(***************************************************************************)
EXTENDS Integers, Sequences, FiniteSets, TLC

VARIABLES fs, rq, clock, dirs, runs

vars == <<fs, rq, clock, dirs, runs>>

(* ------------------------------ bounds --------------------------------- *)
MaxSteps == 2
MaxRuns == 2
NReq == 2
MaxReqSteps == 1

Req == 1..NReq

(* ------------------------- paths and contents -------------------------- *)
\* A path dir[/d]/base[_n][_m]ext; d, n are 0 and m is "" where the name has none.
P(dir, d, base, n, m, ext) ==
  [dir |-> dir, d |-> d, base |-> base, n |-> n, m |-> m, ext |-> ext]

NoPath == P("", 0, "", 0, "", "")

\* A directory: the relative 'temp', or one below a mkdtemp() directory d.
Dir(dir, d) == [dir |-> dir, d |-> d]

DefaultTempDir == Dir("temp", 0)

\* os.path.join(directory, file name)
Join(td, base, n, m, ext) == P(td.dir, td.d, base, n, m, ext)

\* The bytes of an audio file: the recording it stems from (src; 0 is not
\* audio at all) and the conversions applied to it, in order.
Bytes(src) == [src |-> src, ops |-> <<>>]

NoData == Bytes(0)

File(data, by) == [data |-> data, by |-> by]

Exists(f, p) == p \in DOMAIN f

WriteFileKeepExisting(f, p, data, by) ==
  IF p \in DOMAIN f THEN f
  ELSE [q \in DOMAIN f \cup {p} |-> IF q = p THEN File(data, by) ELSE f[q]]

\* open(p, "wb") and write: creates the file or replaces its content.
WriteFile(f, p, data, by) ==
  [q \in DOMAIN f \cup {p} |-> IF q = p THEN File(data, by) ELSE f[q]]

\* str.lower() of a file extension
Lower(ext) == IF ext = ".WAV" THEN ".wav" ELSE ext

\* ffmpeg -acodec pcm_s16le -ar 44100 -ac 1
Transcode(data) == [data EXCEPT !.ops = Append(@, "pcm_s16le")]

\* cv(input_path) then cv.write: the enhancement model, a function of the
\* task, the model name and the bytes read.
Apply(task, model_name, data) ==
  [data EXCEPT !.ops = Append(Append(@, task), model_name)]

\* base64.b64encode(...).decode("utf-8")
B64Encode(data) == [data EXCEPT !.ops = Append(@, "base64")]

(* ------------------------------ pipelines ------------------------------ *)
SE == [task |-> "speech_enhancement", model_name |-> "MossFormer2_SE_48K"]
SR == [task |-> "speech_super_resolution", model_name |-> "MossFormer2_SR_48K"]

StepKinds == {SE, SR}

Pipelines == UNION {[1..n -> StepKinds] : n \in 0..MaxSteps}

DefaultPipeline == <<SE, SR, SE>>

\* What the model library raises; the runner neither chooses nor changes it.
ModelErrors == {"model not found", "runtime error"}

IntermediatePathNoIndex(temp_dir, i, model_name) ==
  Join(temp_dir, "intermediate", 0, model_name, ".wav")

\* os.path.join(temp_dir, f'intermediate_{i}_{model_name}.wav')
IntermediatePath(temp_dir, i, model_name) ==
  Join(temp_dir, "intermediate", i, model_name, ".wav")

\* ensure_wav_format: the path of the WAV file, and the file system after
\* it; ffmpeg_ok is whether ffmpeg exits with status 0.
EnsureWavFormat(f, input_path, temp_dir, ffmpeg_ok, by) ==
  IF Lower(input_path.ext) = ".wav"
  THEN [path |-> input_path, fs |-> f]
  ELSE LET wav_path == Join(temp_dir, input_path.base, input_path.n,
                            input_path.m, ".wav")
       IN IF ffmpeg_ok /\ Exists(f, input_path) /\ f[input_path].data.src # 0
          THEN [path |-> wav_path,
                fs |-> WriteFile(f, wav_path, Transcode(f[input_path].data), by)]
          ELSE [path |-> input_path, fs |-> f]

\* The first lines of enhance_audio: handler.py normalises the input to
\* WAV itself, main.py takes the input as it is.
EnterRunner(variant, f, input_path, temp_dir, ffmpeg_ok, by) ==
  IF variant = "handler"
  THEN EnsureWavFormat(f, input_path, temp_dir, ffmpeg_ok, by)
  ELSE [path |-> input_path, fs |-> f]

ProcessAudioSwallows(ok) == FALSE

\* process_audio: an exception of the model library propagates (main.py
\* logs and re-raises it, handler.py has no try at all).
ProcessAudioRaises(ok) == ~ok

(* ------------------------------- state --------------------------------- *)
NoEvent == [src |-> "", ext |-> "", net |-> "", valid |-> FALSE,
            has_pipeline |-> FALSE, return_type |-> ""]

NoResp == [kind |-> "none", error |-> "", traceback |-> <<>>,
           file_path |-> NoPath, audio |-> NoData, pipeline |-> <<>>]

Idle == [pc |-> "idle", rid |-> 0, variant |-> "", caller |-> "", ev |-> NoEvent,
         input_path |-> NoPath, output_path |-> NoPath, temp_dir |-> Dir("", 0),
         input_wav_path |-> NoPath, current_file |-> NoPath,
         model_pipeline |-> <<>>, i |-> 0, calls |-> <<>>, failedAt |-> -1,
         copied |-> NoPath, tmp |-> 0, ts |-> 0,
         again |-> FALSE,
         inBefore |-> NoData, outBefore |-> [exists |-> FALSE, data |-> NoData],
         resp |-> NoResp]

\* The files a direct caller of enhance_audio has at hand.
InputA == P("inputs", 0, "a", 0, "", ".wav")
InputB == P("inputs", 0, "b", 0, "", ".mp3")
RunInputs == {InputA, InputB}
RunOutput == P("outputs", 0, "out", 0, "", ".wav")

InitFiles ==
  [p \in RunInputs |->
     File(Bytes(IF p = InputA THEN 1 ELSE 2), 0)]

EmptyFs == [p \in {} |-> File(NoData, 0)]

(* --------------------------- the runner -------------------------------- *)
\* An exception leaves enhance_audio.  A direct caller gets the library's
\* or shutil's exception as it is; both handlers call enhance_audio inside
\* their try and answer {"error": str(e), "traceback": ...}.
Raise(q, msg) ==
  IF q.caller = "direct"
  THEN [q EXCEPT !.pc = "raised", !.resp = [NoResp EXCEPT !.kind = "raised"]]
  ELSE [q EXCEPT !.pc = "error",
                 !.resp = [NoResp EXCEPT
                             !.kind = "error", !.error = msg,
                             !.traceback = <<"handler", "enhance_audio", msg>>]]

\* One iteration of the loop of enhance_audio: process_audio on the cursor.
\* Each call is recorded with what it read (inData, written by inBy) and
\* what it wrote (replaced: who had written the file it replaced, -1 if
\* there was none).
\* The model completes (and cv.write writes the intermediate file) or
\* raises (and writes nothing); it raises on a missing or undecodable input.
RunStep(r) ==
  LET q == rq[r]
      step == q.model_pipeline[q.i + 1]
      intermediate_path == IntermediatePath(q.temp_dir, q.i, step.model_name)
      readable == Exists(fs, q.current_file) /\ fs[q.current_file].data.src # 0
  IN /\ q.pc = "running"
     /\ q.i < Len(q.model_pipeline)
     /\ \E ok \in {TRUE, FALSE}, msg \in ModelErrors :
          /\ ok => readable /\ msg = "runtime error"
          /\ LET in_file == IF Exists(fs, q.current_file)
                            THEN fs[q.current_file] ELSE File(NoData, 0)
                 out_data == IF ok THEN Apply(step.task, step.model_name, in_file.data)
                             ELSE NoData
                 call == [i |-> q.i, task |-> step.task,
                          model_name |-> step.model_name,
                          inp |-> q.current_file, inData |-> in_file.data,
                          inBy |-> in_file.by, out |-> intermediate_path,
                          outData |-> out_data, ok |-> ok,
                          replaced |-> IF Exists(fs, intermediate_path)
                                       THEN fs[intermediate_path].by ELSE -1]
                 q1 == [q EXCEPT !.calls = Append(@, call)]
             IN /\ fs' = IF ok
                         THEN WriteFile(fs, intermediate_path, out_data, q.rid)
                         ELSE fs
                /\ rq' = [rq EXCEPT ![r] =
                            IF ProcessAudioRaises(ok)
                            THEN Raise([q1 EXCEPT !.failedAt = q.i], msg)
                            ELSE [q1 EXCEPT !.current_file = intermediate_path,
                                            !.i = q.i + 1]]
     /\ UNCHANGED <<clock, dirs, runs>>

\* shutil.copy(current_file, output_path) after the loop, and the return.
RunCopy(r) ==
  LET q == rq[r]
  IN /\ q.pc = "running"
     /\ q.i = Len(q.model_pipeline)
     /\ IF ~Exists(fs, q.current_file)
        THEN /\ rq' = [rq EXCEPT ![r] = Raise(q, "FileNotFoundError")]
             /\ fs' = fs
        ELSE IF q.current_file = q.output_path
        THEN /\ rq' = [rq EXCEPT ![r] = Raise(q, "SameFileError")]
             /\ fs' = fs
        ELSE /\ fs' = WriteFile(fs, q.output_path, fs[q.current_file].data, q.rid)
             /\ rq' = [rq EXCEPT ![r] =
                         [q EXCEPT !.copied = q.current_file,
                                   !.pc = IF q.caller = "direct"
                                          THEN "returned" ELSE "package"]]
     /\ UNCHANGED <<clock, dirs, runs>>

\* A direct call enhance_audio(input_path, output_path, model_pipeline) of
\* the copy in use, with the default temp_dir='temp', once the previous call
\* has ended; the scratch directory keeps what earlier calls left in it.
\* output_path is a path of its own or, for the empty pipeline, possibly
\* the input path itself.
Call(r) ==
  /\ rq[r].pc \in {"idle", "returned", "raised"}
  /\ runs < MaxRuns
  /\ \E input_path \in RunInputs, model_pipeline \in Pipelines,
        same \in {TRUE, FALSE}, ffmpeg_ok \in {TRUE, FALSE} :
       LET variant == rq[r].variant
           output_path == IF same THEN input_path ELSE RunOutput
           rid == runs + 1
           e == EnterRunner(variant, fs, input_path, DefaultTempDir, ffmpeg_ok, rid)
       IN /\ same => model_pipeline = <<>>
          /\ ffmpeg_ok => e.path # input_path \/ Lower(input_path.ext) = ".wav"
          /\ fs' = e.fs
          /\ runs' = rid
          /\ rq' = [rq EXCEPT ![r] =
                      [Idle EXCEPT
                         !.pc = "running", !.rid = rid, !.variant = variant,
                         !.caller = "direct", !.input_path = input_path,
                         !.output_path = output_path,
                         !.temp_dir = DefaultTempDir,
                         !.input_wav_path = e.path, !.current_file = e.path,
                         !.model_pipeline = model_pipeline,
                         !.again = /\ rq[r].input_path = input_path
                                   /\ rq[r].output_path = output_path
                                   /\ rq[r].model_pipeline = model_pipeline,
                         !.inBefore = fs[input_path].data,
                         !.outBefore =
                            IF Exists(fs, output_path)
                            THEN [exists |-> TRUE, data |-> fs[output_path].data]
                            ELSE [exists |-> FALSE, data |-> NoData]]]
  /\ UNCHANGED <<clock, dirs>>

InitRun ==
  /\ fs = InitFiles
  /\ \E variant \in {"main", "handler"} :
       rq = [r \in Req |-> [Idle EXCEPT !.variant = variant]]
  /\ clock = 0
  /\ dirs = {}
  /\ runs = 0

NextRun == Call(1) \/ RunStep(1) \/ RunCopy(1)

\* enhance_audio called directly, one call after the other.
SpecRun == InitRun /\ [][NextRun]_vars

(* ------------------------- the request events -------------------------- *)
\* The audio source of a request: an uploaded file (audio_file.local_path),
\* a URL (input_url; net is what fetching it gives) or a base64 payload
\* (valid: it decodes), or none; ext is the extension of the uploaded file
\* or of the URL.
Sources ==
  {[src |-> "audio_file", ext |-> e, net |-> "", valid |-> TRUE] :
      e \in {".wav", ".mp3"}}
  \cup {[src |-> "input_url", ext |-> e, net |-> n, valid |-> TRUE] :
      e \in {"", ".mp3"}, n \in {"ok", "404", "unreachable"}}
  \cup {[src |-> "payload", ext |-> "", net |-> "", valid |-> v] :
      v \in {TRUE, FALSE}}
  \cup {[src |-> "none", ext |-> "", net |-> "", valid |-> TRUE]}

\* A request names its own steps or leaves model_pipeline out.
RequestPipelines == {p \in Pipelines : Len(p) <= MaxReqSteps}

Events(return_types) ==
  {[src |-> s.src, ext |-> s.ext, net |-> s.net, valid |-> s.valid,
    has_pipeline |-> h, return_type |-> t] :
      s \in Sources, h \in {TRUE, FALSE}, t \in return_types}

\* The file the platform uploaded for request r, and the audio r sends.
UploadPath(r, ext) == P("uploads", 0, "upload", r, "", ext)

Audio(r) == Bytes(r)

\* The body of a 404 answer: bytes, but no audio.
ErrorPage == NoData

ErrorResponse(msg, trace) ==
  [NoResp EXCEPT !.kind = "error", !.error = msg, !.traceback = trace]

(* --------------------- src/handler.py: handler(event) ------------------ *)
\* Lines 107-150 and the entry of enhance_audio (154, 58-64): directories,
\* the timestamped names, the input written to inputs/, the pipeline.  The
\* input is resolved outside the try: requests.get and base64.b64decode
\* raise to the caller of handler; requests.get does not raise on a 404.
HStart(r) ==
  /\ rq[r].pc = "idle"
  /\ \E ev \in Events({""}), p \in RequestPipelines,
        ffmpeg_ok \in {TRUE, FALSE}, tick \in {0, 1} :
       LET timestamp == clock
           model_pipeline == IF ev.has_pipeline THEN p ELSE DefaultPipeline
           output_path == P("outputs", 0, "output", timestamp, "", ".wav")
           file_extension == IF ev.ext = "" THEN ".wav" ELSE ev.ext
           input_path ==
             CASE ev.src = "audio_file" -> UploadPath(r, ev.ext)
               [] ev.src = "input_url" ->
                    P("inputs", 0, "input", timestamp, "", file_extension)
               [] OTHER -> P("inputs", 0, "input", timestamp, "", ".wav")
           fs1 ==
             CASE ev.src = "audio_file" -> WriteFile(fs, input_path, Audio(r), 0)
               [] ev.src = "input_url" /\ ev.net = "ok" ->
                    WriteFile(fs, input_path, Audio(r), r)
               [] ev.src = "input_url" /\ ev.net = "404" ->
                    WriteFile(fs, input_path, ErrorPage, r)
               [] ev.src = "payload" /\ ev.valid ->
                    WriteFile(fs, input_path, Audio(r), r)
               [] OTHER -> fs
           e == EnterRunner("handler", fs1, input_path, DefaultTempDir,
                            ffmpeg_ok, r)
           q == [Idle EXCEPT !.rid = r, !.variant = "handler",
                             !.caller = "handler", !.ev = ev, !.ts = timestamp,
                             !.model_pipeline = model_pipeline]
       IN /\ ~ev.has_pipeline => p = <<>>
          /\ clock' = clock + tick
          /\ runs' = runs
          /\ dirs' = dirs
          /\ IF ev.src = "none"
             THEN /\ ~ffmpeg_ok
                  /\ fs' = fs
                  /\ rq' = [rq EXCEPT ![r] =
                              [q EXCEPT !.pc = "error",
                                        !.resp = ErrorResponse(
                                           "No input audio provided", <<>>)]]
             ELSE IF \/ ev.src = "input_url" /\ ev.net = "unreachable"
                     \/ ev.src = "payload" /\ ~ev.valid
             THEN /\ ~ffmpeg_ok
                  /\ fs' = fs
                  /\ rq' = [rq EXCEPT ![r] = [q EXCEPT !.pc = "crashed"]]
             ELSE /\ ffmpeg_ok => e.path # input_path
                  /\ fs' = e.fs
                  /\ rq' = [rq EXCEPT ![r] =
                              [q EXCEPT !.pc = "running",
                                        !.input_path = input_path,
                                        !.output_path = output_path,
                                        !.temp_dir = DefaultTempDir,
                                        !.input_wav_path = e.path,
                                        !.current_file = e.path,
                                        !.inBefore = fs1[input_path].data]]

\* Lines 156-177: the output file is read back and answered, as base64 and
\* by its path; a failure to read it is answered as an error.
HPackage(r) ==
  LET q == rq[r]
  IN /\ q.pc = "package"
     /\ rq' = [rq EXCEPT ![r] =
                 IF Exists(fs, q.output_path)
                 THEN [q EXCEPT
                         !.pc = "done",
                         !.resp = [NoResp EXCEPT
                                     !.kind = "output",
                                     !.file_path = q.output_path,
                                     !.audio = B64Encode(fs[q.output_path].data),
                                     !.pipeline = q.model_pipeline]]
                 ELSE Raise(q, "FileNotFoundError")]
     /\ UNCHANGED <<fs, clock, dirs, runs>>

InitHandler ==
  /\ fs = EmptyFs
  /\ rq = [r \in Req |-> Idle]
  /\ clock = 0
  /\ dirs = {}
  /\ runs = 0

NextHandler ==
  \E r \in Req : HStart(r) \/ RunStep(r) \/ RunCopy(r) \/ HPackage(r)

\* The handler of src/handler.py serving requests at the same time.
SpecHandler == InitHandler /\ [][NextHandler]_vars

(* ------------------ src/clearvoice/main.py: handler(event) ------------- *)
\* tempfile.mkdtemp(): a directory that does not exist yet.
Mkdtemp(ds) == CHOOSE d \in 1..(Cardinality(ds) + 1) : d \notin ds

\* os.path.join("/tmp", f"enhanced_audio_{os.path.basename(output_path)}")
FinalOutputPath(output_path) ==
  P("/tmp", 0, "enhanced_audio", 0, output_path.base, output_path.ext)

\* shutil.rmtree(temp_dir) of the mkdtemp() directory d
Rmtree(f, d) ==
  LET keep == {p \in DOMAIN f :
                 ~(p.d = d /\ p.dir \in {"tmp", "tmp/intermediates"})}
  IN [p \in keep |-> f[p]]

\* Lines 184-221 and the entry of enhance_audio: all of it inside the try,
\* so every failure to resolve the input is answered as an error;
\* read_audio_from_url raises on a 404 (raise_for_status).
MStart(r) ==
  /\ rq[r].pc = "idle"
  /\ \E ev \in Events({"base64", "file"}), p \in RequestPipelines,
        ffmpeg_ok \in {TRUE, FALSE} :
       LET d == Mkdtemp(dirs)
           temp_dir == Dir("tmp", d)
           output_path == Join(temp_dir, "enhanced_audio", 0, "", ".wav")
           model_pipeline == IF ev.has_pipeline THEN p ELSE DefaultPipeline
           download_path == Join(temp_dir, "downloaded_file", 0, "", "")
           source_path ==
             CASE ev.src = "audio_file" -> UploadPath(r, ev.ext)
               [] ev.src = "input_url" -> download_path
               [] OTHER -> Join(temp_dir, "input_audio", 0, "", ".wav")
           fs1 ==
             CASE ev.src = "audio_file" -> WriteFile(fs, source_path, Audio(r), 0)
               [] ev.src = "input_url" /\ ev.net = "ok" ->
                    WriteFile(fs, source_path, Audio(r), r)
               [] ev.src = "payload" /\ ev.valid ->
                    WriteFile(fs, source_path, Audio(r), r)
               [] OTHER -> fs
           w == IF ev.src = "payload"
                THEN [path |-> source_path, fs |-> fs1]
                ELSE EnsureWavFormat(fs1, source_path, temp_dir, ffmpeg_ok, r)
           e == EnterRunner("main", w.fs, w.path,
                            Dir("tmp/intermediates", d), ffmpeg_ok, r)
           q == [Idle EXCEPT !.rid = r, !.variant = "main",
                             !.caller = "handler", !.ev = ev, !.tmp = d,
                             !.model_pipeline = model_pipeline]
           failure ==
             CASE ev.src = "none" -> "No audio input provided"
               [] ev.src = "input_url" /\ ev.net = "unreachable" -> "ConnectionError"
               [] ev.src = "input_url" /\ ev.net = "404" -> "404 Client Error"
               [] ev.src = "payload" /\ ~ev.valid -> "binascii.Error"
               [] OTHER -> ""
       IN /\ ~ev.has_pipeline => p = <<>>
          /\ dirs' = dirs \cup {d}
          /\ UNCHANGED <<clock, runs>>
          /\ IF failure # ""
             THEN /\ ~ffmpeg_ok
                  /\ fs' = fs
                  /\ rq' = [rq EXCEPT ![r] =
                              [q EXCEPT !.pc = "error",
                                        !.resp = ErrorResponse(
                                           failure,
                                           IF ev.src = "none" THEN <<>>
                                           ELSE <<"handler", failure>>)]]
             ELSE /\ ffmpeg_ok => w.path # source_path
                  /\ fs' = e.fs
                  /\ rq' = [rq EXCEPT ![r] =
                              [q EXCEPT !.pc = "running",
                                        !.input_path = w.path,
                                        !.output_path = output_path,
                                        !.temp_dir = Dir("tmp/intermediates", d),
                                        !.input_wav_path = e.path,
                                        !.current_file = e.path,
                                        !.inBefore = w.fs[w.path].data]]

\* Lines 223-253: the response.  "base64" reads the output back and removes
\* the temporary directory; "file" copies the output to /tmp and keeps the
\* directory.
MPackage(r) ==
  LET q == rq[r]
      final_output_path == FinalOutputPath(q.output_path)
  IN /\ q.pc = "package"
     /\ UNCHANGED <<clock, runs>>
     /\ IF ~Exists(fs, q.output_path)
        THEN /\ rq' = [rq EXCEPT ![r] = Raise(q, "FileNotFoundError")]
             /\ UNCHANGED <<fs, dirs>>
        ELSE IF q.ev.return_type = "base64"
        THEN /\ rq' = [rq EXCEPT ![r] =
                         [q EXCEPT
                            !.pc = "done",
                            !.resp = [NoResp EXCEPT
                                        !.kind = "output",
                                        !.audio = B64Encode(fs[q.output_path].data),
                                        !.pipeline = q.model_pipeline]]]
             /\ fs' = Rmtree(fs, q.tmp)
             /\ dirs' = dirs \ {q.tmp}
        ELSE /\ rq' = [rq EXCEPT ![r] =
                         [q EXCEPT
                            !.pc = "done",
                            !.resp = [NoResp EXCEPT
                                        !.kind = "output",
                                        !.file_path = final_output_path,
                                        !.pipeline = q.model_pipeline]]]
             /\ fs' = WriteFile(fs, final_output_path, fs[q.output_path].data, r)
             /\ dirs' = dirs

InitMain ==
  /\ fs = EmptyFs
  /\ rq = [r \in Req |-> Idle]
  /\ clock = 0
  /\ dirs = {}
  /\ runs = 0

NextMain ==
  \E r \in Req : MStart(r) \/ RunStep(r) \/ RunCopy(r) \/ MPackage(r)

\* The handler of src/clearvoice/main.py serving requests at the same time.
SpecMain == InitMain /\ [][NextMain]_vars

(* ------------------- claims about the runner (SpecRun) ----------------- *)
\* The intermediate files of the scratch directory of q that q's run wrote.
OwnIntermediates(q) ==
  {p \in DOMAIN fs : /\ p.dir = q.temp_dir.dir /\ p.d = q.temp_dir.d
                     /\ p.base = "intermediate" /\ fs[p].by = q.rid}

Outs(q) == {q.calls[j].out : j \in 1..Len(q.calls)}

C2_AbortOnFailure ==
  \A r \in Req :
    LET q == rq[r]
        n == Len(q.model_pipeline)
    IN \A k \in 1..Len(q.calls) :
         ~q.calls[k].ok =>
           /\ k = Len(q.calls)
           /\ q.pc = "raised"
           /\ q.failedAt = k - 1
           /\ \A j \in 1..k : q.calls[j].i = j - 1
           /\ \A j \in (k + 1)..n :
                LET p == IntermediatePath(q.temp_dir, j - 1,
                                          q.model_pipeline[j].model_name)
                IN Exists(fs, p) => fs[p].by # q.rid
           /\ Exists(fs, q.output_path) = q.outBefore.exists
           /\ Exists(fs, q.output_path) =>
                /\ fs[q.output_path].data = q.outBefore.data
                /\ fs[q.output_path].by # q.rid
           /\ q.copied = NoPath

\* C2's case: a step failed with steps still to come, on a fresh output path.
C2_Witness ==
  \E r \in Req :
    /\ rq[r].pc = "raised"
    /\ rq[r].failedAt >= 0
    /\ rq[r].failedAt + 1 < Len(rq[r].model_pipeline)
    /\ ~Exists(fs, rq[r].output_path)

\* C6: with an empty step list (and an output path of its own) the runner
\* invokes no model, creates no intermediate, and returns at output_path a
\* file whose bytes are those of the input, which it leaves unchanged.
C6_EmptyPipelineIsIdentity ==
  \A r \in Req :
    LET q == rq[r]
    IN (/\ q.pc \in {"returned", "raised"}
        /\ q.model_pipeline = <<>>
        /\ q.output_path # q.input_path) =>
         /\ q.pc = "returned"
         /\ q.calls = <<>>
         /\ OwnIntermediates(q) = {}
         /\ fs[q.output_path].data = q.inBefore
         /\ fs[q.input_path].data = q.inBefore

\* C8: a run over a scratch directory that holds the intermediates of
\* earlier runs reads, in every step, the input artifact (as normalised by
\* this run) or a file this run wrote in its previous step, and what it
\* copies to output_path is what its own last step wrote.
C8_NoStaleIntermediateReused ==
  \A r \in Req :
    LET q == rq[r]
        n == Len(q.model_pipeline)
    IN /\ \A j \in 1..Len(q.calls) :
            IF j = 1
            THEN /\ q.calls[j].inp = q.input_wav_path
                 /\ q.calls[j].inp = q.input_path \/ q.calls[j].inBy = q.rid
            ELSE /\ q.calls[j].inp = q.calls[j - 1].out
                 /\ q.calls[j].inBy = q.rid
                 /\ q.calls[j].inData = q.calls[j - 1].outData
       /\ (q.pc = "returned" /\ n >= 1) =>
            /\ fs[q.copied].by = q.rid
            /\ q.copied = q.calls[n].out
            /\ fs[q.output_path] = File(q.calls[n].outData, q.rid)
       /\ (q.pc = "returned" /\ n = 0) =>
            /\ q.copied = q.input_wav_path
            /\ q.copied = q.input_path \/ fs[q.copied].by = q.rid

\* C8's case: the identical call made again has returned, every one of its
\* steps having found (and replaced) the file an earlier run left.
C8_Witness ==
  \E r \in Req :
    /\ rq[r].pc = "returned"
    /\ rq[r].again
    /\ rq[r].rid >= 2
    /\ Len(rq[r].calls) >= 2
    /\ \A j \in 1..Len(rq[r].calls) :
         /\ rq[r].calls[j].replaced >= 1
         /\ rq[r].calls[j].replaced < rq[r].rid

\* C9: with an empty pipeline and output_path equal to input_path the call
\* completes without an error and the file at that path is unchanged.
C9_CoincidingPathsHandled ==
  \A r \in Req :
    LET q == rq[r]
    IN (/\ q.pc \in {"returned", "raised"}
        /\ q.model_pipeline = <<>>
        /\ q.output_path = q.input_path) =>
         /\ q.pc = "returned"
         /\ fs[q.input_path].data = q.inBefore

(* ---------------- claims about the handlers (SpecHandler, SpecMain) ----- *)
RECURSIVE RunAll(_, _)
\* The bytes an undisturbed run of the steps makes of data.
RunAll(steps, data) ==
  IF steps = <<>> THEN data
  ELSE RunAll(Tail(steps), Apply(Head(steps).task, Head(steps).model_name, data))

\* C3: whatever fails (resolving the input, a pipeline step, packaging),
\* the handler answers with an error response: a request that has ended has
\* a response, and no exception has left handler(event).
C3_EveryFailureIsAnswered ==
  \A r \in Req :
    /\ rq[r].pc # "crashed"
    /\ rq[r].pc \in {"done", "error"} => rq[r].resp.kind \in {"output", "error"}

\* C4: a request whose URL answers 404 ends in input resolution: the
\* runner is never entered and the model is never called for it.
C4_NotFoundNeverReachesRunner ==
  \A r \in Req :
    (rq[r].ev.src = "input_url" /\ rq[r].ev.net = "404") =>
      /\ rq[r].pc = "error"
      /\ rq[r].input_wav_path = NoPath
      /\ rq[r].calls = <<>>

\* C5: requests served at the same time do not touch each other's
\* intermediates: no step of a request reads or replaces an intermediate
\* another request wrote, and the audio a request is answered with is what
\* its own steps make of its own (normalised) input.
C5_ConcurrentRequestsIndependent ==
  \A r \in Req :
    LET q == rq[r]
    IN /\ \A j \in 1..Len(q.calls) :
            /\ q.calls[j].replaced \in {-1, r}
            /\ j > 1 => /\ q.calls[j].inBy = r
                        /\ q.calls[j].inData = q.calls[j - 1].outData
       /\ q.pc = "done" =>
            q.resp.audio \in
              {B64Encode(RunAll(q.model_pipeline, q.inBefore)),
               B64Encode(RunAll(q.model_pipeline, Transcode(q.inBefore)))}

\* The step of its pipeline at which request r failed.
FailedStep(r) == rq[r].model_pipeline[rq[r].failedAt + 1]

\* C7: the error a failed step is answered with identifies the step: two
\* requests answered with the same error failed at the same step index,
\* task and model name.
C7_ErrorIdentifiesStep ==
  \A r1, r2 \in Req :
    (/\ rq[r1].pc = "error" /\ rq[r1].failedAt >= 0
     /\ rq[r2].pc = "error" /\ rq[r2].failedAt >= 0
     /\ rq[r1].resp = rq[r2].resp) =>
       /\ rq[r1].failedAt = rq[r2].failedAt
       /\ FailedStep(r1) = FailedStep(r2)

\* C10: the file at a file_path a request was answered with stays that
\* request's final artifact, whatever other requests do.
C10_ReturnedFileKeepsItsArtifact ==
  \A r \in Req :
    (rq[r].pc = "done" /\ rq[r].ev.return_type = "file") =>
      /\ Exists(fs, rq[r].resp.file_path)
      /\ fs[rq[r].resp.file_path].by = r

====
